---- MODULE Spec2Model ----
(***************************************************************************)
(* CustomOperator (src/operator/custom/custom-inl.h): the registry of      *)
(* custom operator creators, and the dispatch path Push with its worker    *)
(* pool (q_, workers_, num_free_threads, cv_, mutex_), the task closure    *)
(* and the closure handed to Engine::PushSync.                             *)
(***************************************************************************)
EXTENDS Integers, Sequences, FiniteSets, TLC

\* ------------------------------------------------------------------ bounds
MaxTasks == 3        \* Push calls made in one behaviour
MaxCap == 2          \* largest value of MXNET_CUSTOM_OP_NUM_THREADS tried
NumCallers == 2      \* threads that call Push
MaxArrs == 3         \* longest arrs / tags given to one Push
MaxRegs == 3         \* Register calls made in one behaviour

Callers == 1..NumCallers

\* int, and std::atomic<uint32_t> num_free_threads, are 32 bits wide. A uint32_t
\* is written as the int that has the same 32 bits: u itself below 2^31, and
\* u - 2^32 from 2^31 on (the value 0 - 1 wraps to is written -1)
Int32Max == 2147483647
Int32Min == (-Int32Max) - 1

\* ---------------------------------------------------------- thread names
NoThread == <<"none", 0>>
CallerThread(c) == <<"caller", c>>
WorkerThread(w) == <<"worker", w>>

\* the kind of thread an event of hist ran on
OnCaller == "caller"
OnWorker == "worker"
OnEngine == "engine"

\* ------------------------------------------------------- storage types
kUndefinedStorage == "undefined"
kDefaultStorage == "default"
kRowSparseStorage == "row_sparse"
StorageTypes == {kUndefinedStorage, kDefaultStorage, kRowSparseStorage}
TagValues == {0, 1}

\* chunk identities: arrs[i] starts on ArrChunk(i), outputs[k] on OutChunk(k), and
\* a sparse arrs[i] is on NewChunk(i) once func has reallocated its storage
ArrChunk(i) == <<"arr", i>>
OutChunk(k) == <<"out", k>>
NewChunk(i) == <<"new", i>>

VARIABLES
    naive_engine_,      \* bool naive_engine_
    maxThreads,         \* dmlc::GetEnv("MXNET_CUSTOM_OP_NUM_THREADS", 16)
    mutex_,             \* the thread that holds mutex_, or NoThread
    registry_,          \* std::map<std::string, CustomOpPropCreator>, as a set of <<name, creator>>
    q_,                 \* std::queue of task closures, as task ids
    workers_,           \* std::vector<std::thread>, as worker ids
    num_free_threads,   \* std::atomic<uint32_t>
    destructing_,       \* bool destructing_
    wpc,                \* position of each worker thread in ThreadTarget
    wfn,                \* the closure fn a worker holds (a task id, 0: none)
    wprev,              \* prev_recording / prev_training of the closure a worker runs
    flags,              \* the recording / training flags each worker thread reads
    wambient,           \* the flags a worker thread read just before its current closure
    cpc,                \* position of each calling thread in Push
    ctask,              \* the task of the Push a calling thread is in (0: none)
    ctarget,            \* num_threads of the SetNumThreads call a calling thread is in
    tasks,              \* per Push: its arguments and the handles it works on
    hist,               \* per Push: what has run for it, in order, and on which thread
    engine,             \* per Push: the state of its closure in Engine::PushSync
    dpc,                \* position of the destructor
    joined,             \* the workers the destructor has joined, in order
    deqOrder,           \* task ids in the order they left q_
    regLog,             \* the Register calls made, in order
    warnings,           \* number of LOG(WARNING) lines written by Register
    rpc,                \* position of each thread in Register / Find
    rargs,              \* arguments of the Register / Find a thread is in
    findRes             \* the last Find that returned: <<op_type, result, Len(regLog) then>>

poolVars == <<naive_engine_, maxThreads, q_, workers_, num_free_threads, destructing_,
              wpc, wfn, wprev, flags, wambient, cpc, ctask, ctarget, tasks, hist, engine, dpc,
              joined, deqOrder>>
regVars == <<registry_, regLog, warnings, rpc, rargs, findRes>>
vars == <<poolVars, regVars, mutex_>>

\* ------------------------------------------------------------ arithmetic
Min(a, b) == IF a < b THEN a ELSE b

\* a + b in 32 bits
Add32(a, b) ==
    IF b > 0 /\ a > Int32Max - b THEN Int32Min + ((a - (Int32Max - b)) - 1)
    ELSE IF b < 0 /\ a < Int32Min - b THEN Int32Max - (((Int32Min - b) - a) - 1)
    ELSE a + b

Neg32(a) == IF a = Int32Min THEN Int32Min ELSE -a

\* size_t n > uint32_t u, compared as unsigned 64-bit values
SizeGreater(n, u) == u >= 0 /\ n > u

\* (int)(size_t n - uint32_t u), and (int)(size_t n + int d): the low 32 bits
SizeMinusU32(n, u) == Add32(n, Neg32(u))
SizePlusInt(n, d) == Add32(n, d)


\* ------------------------------------------------------ Push's arguments
IsSparse(stype) == stype # kDefaultStorage /\ stype # kUndefinedStorage

\* arrs (by storage type), tags and output_tags of one Push, len(tags) = len(arrs)
InputsOfLen(n) ==
    [stypes : [1..n -> StorageTypes], tags : [1..n -> TagValues],
     output_tags : SUBSET TagValues]

AllInputs == UNION {InputsOfLen(n) : n \in 0..MaxArrs}

\* the (recording, training) values given to Push
FlagChoices == {<<TRUE, FALSE>>, <<FALSE, TRUE>>}

\* what Push is called with in the concurrent runs: <<inputs, flags>>
ScenarioArgs ==
    {<<[stypes |-> <<kDefaultStorage, kRowSparseStorage>>, tags |-> <<0, 1>>,
        output_tags |-> {1}], <<TRUE, FALSE>> >>,
     <<[stypes |-> <<kRowSparseStorage, kRowSparseStorage>>, tags |-> <<0, 1>>,
        output_tags |-> {1}], <<FALSE, TRUE>> >>}

\* the caller's contract on outputs: one handle per entry of arrs that is sparse
\* and tagged as an output
NumOutputs(in) ==
    Cardinality({i \in 1..Len(in.stypes) :
                    IsSparse(in.stypes[i]) /\ in.tags[i] \in in.output_tags})

NewTask(in, fl) ==
    [recording |-> fl[1], training |-> fl[2],
     stypes |-> in.stypes, tags |-> in.tags, output_tags |-> in.output_tags,
     arrChunk |-> [i \in 1..Len(in.stypes) |-> ArrChunk(i)],
     outChunk |-> [k \in 1..NumOutputs(in) |-> OutChunk(k)],
     oob |-> FALSE]

\* func(): the operator's computation; it reallocates the storage of every sparse
\* array it was given
FuncEffect(t) ==
    [t EXCEPT !.arrChunk =
        [i \in 1..Len(t.stypes) |->
            IF IsSparse(t.stypes[i]) THEN NewChunk(i) ELSE t.arrChunk[i]]]

\* NDArray::SparseUpdateChunk: outputs[k] now shares the chunk of arr
SparseUpdateChunk(outChunk, k, chunk) == [outChunk EXCEPT ![k] = chunk]

\* as ReconcileFrom, with outputs indexed by i instead of out_idx
RECURSIVE ReconcileFromByIndex(_, _, _)
ReconcileFromByIndex(t, i, out_idx) ==
    IF i > Len(t.stypes) THEN t
    ELSE IF ~IsSparse(t.stypes[i]) THEN ReconcileFromByIndex(t, i + 1, out_idx)
    ELSE IF t.tags[i] \in t.output_tags
         THEN IF i > Len(t.outChunk)
              THEN ReconcileFromByIndex([t EXCEPT !.oob = TRUE], i + 1, out_idx + 1)
              ELSE ReconcileFromByIndex(
                       [t EXCEPT !.outChunk =
                           SparseUpdateChunk(t.outChunk, i, t.arrChunk[i])],
                       i + 1, out_idx + 1)
         ELSE ReconcileFromByIndex(t, i + 1, out_idx)

\* the reconciliation loop, from index i on, with out_idx outputs rebound so far
\* (out_idx counts from 1 here); oob records outputs[out_idx] past the end
RECURSIVE ReconcileFrom(_, _, _)
ReconcileFrom(t, i, out_idx) ==
    IF i > Len(t.stypes) THEN t
    ELSE IF ~IsSparse(t.stypes[i]) THEN ReconcileFrom(t, i + 1, out_idx)
    ELSE IF t.tags[i] \in t.output_tags
         THEN IF out_idx > Len(t.outChunk)
              THEN ReconcileFrom([t EXCEPT !.oob = TRUE], i + 1, out_idx + 1)
              ELSE ReconcileFrom(
                       [t EXCEPT !.outChunk =
                           SparseUpdateChunk(t.outChunk, out_idx, t.arrChunk[i])],
                       i + 1, out_idx + 1)
         ELSE ReconcileFrom(t, i + 1, out_idx)

Reconcile(t) == ReconcileFrom(t, 1, 1)

\* the loop that builds vars and vars2 in the task closure; idx indexes tags and
\* advances only when an entry is added to vars2 (idx counts from 0 as in the code)
RECURSIVE VarsFrom(_, _, _, _)
VarsFrom(t, p, idx, acc) ==
    IF p > Len(t.stypes) THEN acc
    ELSE LET withVar == [acc EXCEPT !.vars = Append(acc.vars, p)] IN
         IF t.tags[idx + 1] \in t.output_tags
         THEN IF ~IsSparse(t.stypes[p])
              THEN VarsFrom(t, p + 1, idx, withVar)
              ELSE VarsFrom(t, p + 1, idx + 1,
                            [withVar EXCEPT !.vars2 = Append(withVar.vars2, p)])
         ELSE VarsFrom(t, p + 1, idx, withVar)

EngineVars(t) == VarsFrom(t, 1, 0, [vars |-> <<>>, vars2 |-> <<>>])

\* ------------------------------------------------------------------ Init
\* CustomOperator(): num_free_threads(0), destructing_ = false, naive_engine_ from
\* MXNET_ENGINE_TYPE; no worker exists and nothing is registered
InitWithCap(caps) ==
    /\ naive_engine_ \in BOOLEAN
    /\ maxThreads \in caps
    /\ mutex_ = NoThread
    /\ registry_ = <<>>
    /\ q_ = <<>>
    /\ workers_ = <<>>
    /\ num_free_threads = 0
    /\ destructing_ = FALSE
    /\ wpc = <<>>
    /\ wfn = <<>>
    /\ wprev = <<>>
    /\ flags = <<>>
    /\ wambient = <<>>
    /\ cpc = [c \in Callers |-> "idle"]
    /\ ctask = [c \in Callers |-> 0]
    /\ ctarget = [c \in Callers |-> 0]
    /\ tasks = <<>>
    /\ hist = <<>>
    /\ engine = <<>>
    /\ dpc = "alive"
    /\ joined = <<>>
    /\ deqOrder = <<>>
    /\ regLog = <<>>
    /\ warnings = 0
    /\ rpc = [c \in Callers |-> "idle"]
    /\ rargs = [c \in Callers |-> <<>>]
    /\ findRes = <<>>

Init == InitWithCap(0..MaxCap)

NoClosure == [st |-> "none", vars |-> <<>>, vars2 |-> <<>>]

Event(t, ev, on) == [hist EXCEPT ![t] = Append(hist[t], <<ev, on>>)]

\* cv_.notify_all(): every thread blocked in cv_.wait is made runnable
NotifyAll(pcs) == [w \in DOMAIN pcs |-> IF pcs[w] = "sleeping" THEN "woken" ELSE pcs[w]]

\* a thread may enter Push, Register or Find while the object is alive
CanCall(c) == cpc[c] = "idle" /\ rpc[c] = "idle" /\ dpc = "alive"

\* ------------------------------------------------------ Push, naive branch
\* as NaiveFunc, with the reconciliation loop left out
NaiveFuncNoReconcile(c, in, fl) ==
    /\ CanCall(c)
    /\ naive_engine_
    /\ tasks' = Append(tasks, FuncEffect(NewTask(in, fl)))
    /\ hist' = Append(hist, << <<"func", OnCaller>> >>)
    /\ engine' = Append(engine, NoClosure)
    /\ ctask' = [ctask EXCEPT ![c] = Len(tasks) + 1]
    /\ cpc' = [cpc EXCEPT ![c] = "n_complete"]
    /\ UNCHANGED <<naive_engine_, maxThreads, q_, workers_, num_free_threads,
                   destructing_, wpc, wfn, wprev, flags, wambient, ctarget, dpc, joined,
                   deqOrder, regVars, mutex_>>

\* func() on the calling thread
NaiveFunc(c, in, fl) ==
    /\ CanCall(c)
    /\ naive_engine_
    /\ tasks' = Append(tasks, FuncEffect(NewTask(in, fl)))
    /\ hist' = Append(hist, << <<"func", OnCaller>> >>)
    /\ engine' = Append(engine, NoClosure)
    /\ ctask' = [ctask EXCEPT ![c] = Len(tasks) + 1]
    /\ cpc' = [cpc EXCEPT ![c] = "n_reconcile"]
    /\ UNCHANGED <<naive_engine_, maxThreads, q_, workers_, num_free_threads,
                   destructing_, wpc, wfn, wprev, flags, wambient, ctarget, dpc, joined,
                   deqOrder, regVars, mutex_>>

\* the loop over arrs that rebinds the sparse outputs
NaiveReconcile(c) ==
    /\ cpc[c] = "n_reconcile"
    /\ tasks' = [tasks EXCEPT ![ctask[c]] = Reconcile(tasks[ctask[c]])]
    /\ hist' = Event(ctask[c], "reconcile", OnCaller)
    /\ cpc' = [cpc EXCEPT ![c] = "n_complete"]
    /\ UNCHANGED <<naive_engine_, maxThreads, q_, workers_, num_free_threads,
                   destructing_, wpc, wfn, wprev, flags, wambient, ctask, ctarget, engine, dpc,
                   joined, deqOrder, regVars, mutex_>>

\* ctx.async_on_complete()
NaiveComplete(c) ==
    /\ cpc[c] = "n_complete"
    /\ hist' = Event(ctask[c], "complete", OnCaller)
    /\ cpc' = [cpc EXCEPT ![c] = "n_return"]
    /\ UNCHANGED <<naive_engine_, maxThreads, q_, workers_, num_free_threads,
                   destructing_, wpc, wfn, wprev, flags, wambient, ctask, ctarget, tasks, engine,
                   dpc, joined, deqOrder, regVars, mutex_>>

\* return
NaiveReturn(c) ==
    /\ cpc[c] = "n_return"
    /\ hist' = Event(ctask[c], "return", OnCaller)
    /\ cpc' = [cpc EXCEPT ![c] = "idle"]
    /\ ctask' = [ctask EXCEPT ![c] = 0]
    /\ UNCHANGED <<naive_engine_, maxThreads, q_, workers_, num_free_threads,
                   destructing_, wpc, wfn, wprev, flags, wambient, ctarget, tasks, engine,
                   dpc, joined, deqOrder, regVars, mutex_>>

\* ----------------------------------------------------- Push, pooled branch
\* std::unique_lock lock(mutex_); q_.push(closure)
PushEnqueue(c, in, fl) ==
    /\ CanCall(c)
    /\ ~naive_engine_
    /\ mutex_ = NoThread
    /\ mutex_' = CallerThread(c)
    /\ tasks' = Append(tasks, NewTask(in, fl))
    /\ hist' = Append(hist, << <<"enqueue", OnCaller>> >>)
    /\ engine' = Append(engine, NoClosure)
    /\ q_' = Append(q_, Len(tasks) + 1)
    /\ ctask' = [ctask EXCEPT ![c] = Len(tasks) + 1]
    /\ cpc' = [cpc EXCEPT ![c] = "check"]
    /\ UNCHANGED <<naive_engine_, maxThreads, workers_, num_free_threads,
                   destructing_, wpc, wfn, wprev, flags, wambient, ctarget, dpc, joined,
                   deqOrder, regVars>>

\* if (q_.size() > num_free_threads)
PushCheck(c) ==
    /\ cpc[c] = "check"
    /\ cpc' = [cpc EXCEPT ![c] = IF SizeGreater(Len(q_), num_free_threads) THEN "grow"
                              ELSE "notify"]
    /\ UNCHANGED <<naive_engine_, maxThreads, q_, workers_, num_free_threads,
                   destructing_, wpc, wfn, wprev, flags, wambient, ctask, ctarget, tasks, hist,
                   engine, dpc, joined, deqOrder, regVars, mutex_>>

\* as ClampNumThreads, without the std::min
UnclampedNumThreads(num_threads) == num_threads

\* SetNumThreads: num_threads = std::min(GetEnv(..., 16), num_threads)
ClampNumThreads(num_threads) == Min(maxThreads, num_threads)

\* as PushGrow, asking for one thread more than the deficit
PushGrowSpare(c) ==
    /\ cpc[c] = "grow"
    /\ LET num_new_threads == Add32(SizeMinusU32(Len(q_), num_free_threads), 1) IN
       ctarget' = [ctarget EXCEPT
                      ![c] = ClampNumThreads(SizePlusInt(Len(workers_), num_new_threads))]
    /\ cpc' = [cpc EXCEPT ![c] = "spawn"]
    /\ UNCHANGED <<naive_engine_, maxThreads, q_, workers_, num_free_threads,
                   destructing_, wpc, wfn, wprev, flags, wambient, ctask, tasks, hist,
                   engine, dpc, joined, deqOrder, regVars, mutex_>>

\* as PushGrow, with the tasks that workers are running counted in the deficit
PushGrowCountsRunning(c) ==
    /\ cpc[c] = "grow"
    /\ LET running == Cardinality({w \in DOMAIN wfn : wfn[w] # 0})
           num_new_threads == SizeMinusU32(Len(q_) + running, num_free_threads) IN
       ctarget' = [ctarget EXCEPT
                      ![c] = ClampNumThreads(SizePlusInt(Len(workers_), num_new_threads))]
    /\ cpc' = [cpc EXCEPT ![c] = "spawn"]
    /\ UNCHANGED <<naive_engine_, maxThreads, q_, workers_, num_free_threads,
                   destructing_, wpc, wfn, wprev, flags, wambient, ctask, tasks, hist,
                   engine, dpc, joined, deqOrder, regVars, mutex_>>

\* CreateThreads(q_.size() - num_free_threads), which reads num_free_threads again,
\* then SetNumThreads(workers_.size() + num_new_threads) up to its clamp
PushGrow(c) ==
    /\ cpc[c] = "grow"
    /\ LET num_new_threads == SizeMinusU32(Len(q_), num_free_threads) IN
       ctarget' = [ctarget EXCEPT
                      ![c] = ClampNumThreads(SizePlusInt(Len(workers_), num_new_threads))]
    /\ cpc' = [cpc EXCEPT ![c] = "spawn"]
    /\ UNCHANGED <<naive_engine_, maxThreads, q_, workers_, num_free_threads,
                   destructing_, wpc, wfn, wprev, flags, wambient, ctask, tasks, hist,
                   engine, dpc, joined, deqOrder, regVars, mutex_>>

\* as PushSpawn, with the loop bound i <= num_threads
PushSpawnOffByOne(c) ==
    /\ cpc[c] = "spawn"
    /\ IF Len(workers_) <= ctarget[c]
       THEN /\ workers_' = Append(workers_, WorkerThread(Len(workers_) + 1))
            /\ wpc' = Append(wpc, "start")
            /\ wfn' = Append(wfn, 0)
            /\ wprev' = Append(wprev, <<FALSE, FALSE>>)
            /\ flags' = Append(flags, <<FALSE, FALSE>>)
            /\ wambient' = Append(wambient, <<FALSE, FALSE>>)
            /\ cpc' = [cpc EXCEPT ![c] = "spawned"]
       ELSE /\ cpc' = [cpc EXCEPT ![c] = "notify"]
            /\ UNCHANGED <<workers_, wpc, wfn, wprev, flags, wambient>>
    /\ UNCHANGED <<naive_engine_, maxThreads, q_, num_free_threads, destructing_,
                   ctask, ctarget, tasks, hist, engine, dpc, joined, deqOrder, regVars, mutex_>>

\* for (int i = workers_.size(); i < num_threads; ++i) workers_.emplace_back(...)
PushSpawn(c) ==
    /\ cpc[c] = "spawn"
    /\ IF Len(workers_) < ctarget[c]
       THEN /\ workers_' = Append(workers_, WorkerThread(Len(workers_) + 1))
            /\ wpc' = Append(wpc, "start")
            /\ wfn' = Append(wfn, 0)
            /\ wprev' = Append(wprev, <<FALSE, FALSE>>)
            /\ flags' = Append(flags, <<FALSE, FALSE>>)
            /\ wambient' = Append(wambient, <<FALSE, FALSE>>)
            /\ cpc' = [cpc EXCEPT ![c] = "spawned"]
       ELSE /\ cpc' = [cpc EXCEPT ![c] = "notify"]
            /\ UNCHANGED <<workers_, wpc, wfn, wprev, flags, wambient>>
    /\ UNCHANGED <<naive_engine_, maxThreads, q_, num_free_threads, destructing_,
                   ctask, ctarget, tasks, hist, engine, dpc, joined, deqOrder, regVars, mutex_>>

\* as PushSpawned, without the increment
PushSpawnedNoInc(c) ==
    /\ cpc[c] = "spawned"
    /\ cpc' = [cpc EXCEPT ![c] = "spawn"]
    /\ UNCHANGED <<naive_engine_, maxThreads, q_, workers_, destructing_, wpc, wfn,
                   wprev, flags, wambient, ctask, ctarget, tasks, hist, engine, dpc, joined,
                   deqOrder, regVars, mutex_, num_free_threads>>

\* ++num_free_threads for the worker just created
PushSpawned(c) ==
    /\ cpc[c] = "spawned"
    /\ num_free_threads' = Add32(num_free_threads, 1)
    /\ cpc' = [cpc EXCEPT ![c] = "spawn"]
    /\ UNCHANGED <<naive_engine_, maxThreads, q_, workers_, destructing_, wpc, wfn,
                   wprev, flags, wambient, ctask, ctarget, tasks, hist, engine, dpc, joined,
                   deqOrder, regVars, mutex_>>

\* as PushNotify, without the cv_.notify_all()
PushNotifyNoWake(c) ==
    /\ cpc[c] = "notify"
    /\ mutex_' = NoThread
    /\ hist' = Event(ctask[c], "return", OnCaller)
    /\ cpc' = [cpc EXCEPT ![c] = "idle"]
    /\ ctask' = [ctask EXCEPT ![c] = 0]
    /\ ctarget' = [ctarget EXCEPT ![c] = 0]
    /\ UNCHANGED <<naive_engine_, maxThreads, q_, workers_, num_free_threads,
                   destructing_, wfn, wprev, flags, wambient, tasks, engine, dpc,
                   joined, deqOrder, regVars, wpc>>

\* cv_.notify_all(); return, which unlocks mutex_
PushNotify(c) ==
    /\ cpc[c] = "notify"
    /\ wpc' = NotifyAll(wpc)
    /\ mutex_' = NoThread
    /\ hist' = Event(ctask[c], "return", OnCaller)
    /\ cpc' = [cpc EXCEPT ![c] = "idle"]
    /\ ctask' = [ctask EXCEPT ![c] = 0]
    /\ ctarget' = [ctarget EXCEPT ![c] = 0]
    /\ UNCHANGED <<naive_engine_, maxThreads, q_, workers_, num_free_threads,
                   destructing_, wfn, wprev, flags, wambient, tasks, engine, dpc,
                   joined, deqOrder, regVars>>

\* ------------------------------------------------------------ ThreadTarget
WorkerUnchanged ==
    UNCHANGED <<naive_engine_, maxThreads, workers_, destructing_, cpc, ctask,
                ctarget, dpc, joined, regVars>>

\* std::unique_lock lock(mutex_) on entry
WorkerStart(w) ==
    /\ wpc[w] = "start"
    /\ mutex_ = NoThread
    /\ mutex_' = WorkerThread(w)
    /\ wpc' = [wpc EXCEPT ![w] = "outer"]
    /\ WorkerUnchanged
    /\ UNCHANGED <<q_, num_free_threads, wfn, wprev, flags, wambient, tasks, hist, engine,
                   deqOrder>>

\* the predicate of cv_.wait
WaitPred == q_ # <<>> \/ destructing_

\* while (!q_.empty()): into the body, or back to the outer while
InnerWhile == IF q_ # <<>> THEN "dec" ELSE "outer"

\* as WorkerOuter, with the outer loop left as soon as destructing_ is set
WorkerOuterExitsOnShutdown(w) ==
    /\ wpc[w] = "outer"
    /\ IF destructing_
       THEN /\ wpc' = [wpc EXCEPT ![w] = "exited"]
            /\ mutex_' = NoThread
       ELSE IF WaitPred
       THEN /\ wpc' = [wpc EXCEPT ![w] = InnerWhile]
            /\ UNCHANGED mutex_
       ELSE /\ wpc' = [wpc EXCEPT ![w] = "sleeping"]
            /\ mutex_' = NoThread
    /\ WorkerUnchanged
    /\ UNCHANGED <<q_, num_free_threads, wfn, wprev, flags, wambient, tasks, hist, engine,
                   deqOrder>>

\* while (!q_.empty() || !destructing_) cv_.wait(lock, pred): leaving the loop
\* returns and unlocks; wait returns at once when pred holds, which leads to the
\* inner while, and otherwise unlocks and blocks in one step
WorkerOuter(w) ==
    /\ wpc[w] = "outer"
    /\ IF ~(q_ # <<>> \/ ~destructing_)
       THEN /\ wpc' = [wpc EXCEPT ![w] = "exited"]
            /\ mutex_' = NoThread
       ELSE IF WaitPred
       THEN /\ wpc' = [wpc EXCEPT ![w] = InnerWhile]
            /\ UNCHANGED mutex_
       ELSE /\ wpc' = [wpc EXCEPT ![w] = "sleeping"]
            /\ mutex_' = NoThread
    /\ WorkerUnchanged
    /\ UNCHANGED <<q_, num_free_threads, wfn, wprev, flags, wambient, tasks, hist, engine,
                   deqOrder>>

\* a condition variable may wake a waiter that nobody notified
WorkerSpuriousWake(w) ==
    /\ wpc[w] = "sleeping"
    /\ wpc' = [wpc EXCEPT ![w] = "woken"]
    /\ WorkerUnchanged
    /\ UNCHANGED <<q_, num_free_threads, wfn, wprev, flags, wambient, tasks, hist, engine,
                   deqOrder, mutex_>>

\* a woken waiter locks mutex_ again and evaluates pred again: wait returns when
\* pred holds, and otherwise unlocks and blocks again
WorkerWoken(w) ==
    /\ wpc[w] = "woken"
    /\ mutex_ = NoThread
    /\ IF WaitPred
       THEN /\ wpc' = [wpc EXCEPT ![w] = InnerWhile]
            /\ mutex_' = WorkerThread(w)
       ELSE /\ wpc' = [wpc EXCEPT ![w] = "sleeping"]
            /\ UNCHANGED mutex_
    /\ WorkerUnchanged
    /\ UNCHANGED <<q_, num_free_threads, wfn, wprev, flags, wambient, tasks, hist, engine,
                   deqOrder>>

\* as WorkerDec, with the lock released before the pop
WorkerDecThenUnlock(w) ==
    /\ wpc[w] = "dec"
    /\ num_free_threads' = Add32(num_free_threads, -1)
    /\ mutex_' = NoThread
    /\ wpc' = [wpc EXCEPT ![w] = "pop"]
    /\ WorkerUnchanged
    /\ UNCHANGED <<q_, wfn, wprev, flags, wambient, tasks, hist, engine, deqOrder>>

\* --num_free_threads
WorkerDec(w) ==
    /\ wpc[w] = "dec"
    /\ num_free_threads' = Add32(num_free_threads, -1)
    /\ wpc' = [wpc EXCEPT ![w] = "pop"]
    /\ WorkerUnchanged
    /\ UNCHANGED <<q_, wfn, wprev, flags, wambient, tasks, hist, engine, deqOrder,
                   mutex_>>

\* as WorkerPop, taking the newest task instead of the oldest
WorkerPopBack(w) ==
    /\ wpc[w] = "pop"
    /\ q_ # <<>>
    /\ wfn' = [wfn EXCEPT ![w] = q_[Len(q_)]]
    /\ q_' = SubSeq(q_, 1, Len(q_) - 1)
    /\ deqOrder' = Append(deqOrder, q_[Len(q_)])
    /\ hist' = Event(q_[Len(q_)], "dequeue", OnWorker)
    /\ wpc' = [wpc EXCEPT ![w] = "unlock"]
    /\ WorkerUnchanged
    /\ UNCHANGED <<num_free_threads, wprev, flags, wambient, tasks, engine, mutex_>>

\* auto fn = q_.front(); q_.pop()
WorkerPop(w) ==
    /\ wpc[w] = "pop"
    /\ q_ # <<>>
    /\ wfn' = [wfn EXCEPT ![w] = Head(q_)]
    /\ q_' = Tail(q_)
    /\ deqOrder' = Append(deqOrder, Head(q_))
    /\ hist' = Event(Head(q_), "dequeue", OnWorker)
    /\ wpc' = [wpc EXCEPT ![w] = "unlock"]
    /\ WorkerUnchanged
    /\ UNCHANGED <<num_free_threads, wprev, flags, wambient, tasks, engine, mutex_>>

\* Imperative::set_is_recording / set_is_training: store the flag of the calling
\* thread and return the value it had
SetIsRecording(fl, v) == [old |-> fl[1], new |-> <<v, fl[2]>>]
SetIsTraining(fl, v) == [old |-> fl[2], new |-> <<fl[1], v>>]

\* lock.unlock(); fn() starts: prev_recording = set_is_recording(recording);
\* prev_training = set_is_training(training); then func() runs
WorkerUnlock(w) ==
    /\ wpc[w] = "unlock"
    /\ mutex_' = NoThread
    /\ LET t == tasks[wfn[w]]
           r == SetIsRecording(flags[w], t.recording)
           tr == SetIsTraining(r.new, t.training)
       IN /\ wprev' = [wprev EXCEPT ![w] = <<r.old, tr.old>>]
          /\ flags' = [flags EXCEPT ![w] = tr.new]
          /\ wambient' = [wambient EXCEPT ![w] = flags[w]]
    /\ wpc' = [wpc EXCEPT ![w] = "func"]
    /\ WorkerUnchanged
    /\ UNCHANGED <<q_, num_free_threads, wfn, tasks, hist, engine, deqOrder>>

\* func() returns
ClosureFunc(w) ==
    /\ wpc[w] = "func"
    /\ tasks' = [tasks EXCEPT ![wfn[w]] = FuncEffect(tasks[wfn[w]])]
    /\ hist' = Event(wfn[w], "func", OnWorker)
    /\ wpc' = [wpc EXCEPT ![w] = "restore"]
    /\ WorkerUnchanged
    /\ UNCHANGED <<q_, num_free_threads, wfn, wprev, flags, wambient, engine, deqOrder, mutex_>>

\* func() throws: nothing between fn() at 169 and the thread's entry point catches,
\* so the exception leaves ThreadTarget and std::terminate ends the process; the
\* flags are not restored and line 170 is never reached
ClosureFuncRaises(w) ==
    /\ wpc[w] = "func"
    /\ hist' = Event(wfn[w], "raise", OnWorker)
    /\ wpc' = [wpc EXCEPT ![w] = "terminated"]
    /\ WorkerUnchanged
    /\ UNCHANGED <<q_, num_free_threads, wfn, wprev, flags, wambient, tasks, engine,
                   deqOrder, mutex_>>

\* as RestoredFlags, with the recording flag left as the task set it
RestoredFlagsTrainingOnly(fl, prev) == SetIsTraining(fl, prev[2]).new

\* the flags of the thread after set_is_training(prev_training);
\* set_is_recording(prev_recording)
RestoredFlags(fl, prev) ==
    SetIsRecording(SetIsTraining(fl, prev[2]).new, prev[1]).new

\* the closure handed to Engine::PushSync, with the vars and vars2 it declares
PushSyncClosure(t) ==
    [st |-> "pending", vars |-> EngineVars(t).vars, vars2 |-> EngineVars(t).vars2]

\* fn() after func(): restore the flags, build vars and vars2,
\* Engine::Get()->PushSync(...); fn returns
ClosureFinish(w) ==
    /\ wpc[w] = "restore"
    /\ flags' = [flags EXCEPT ![w] = RestoredFlags(flags[w], wprev[w])]
    /\ engine' = [engine EXCEPT ![wfn[w]] = PushSyncClosure(tasks[wfn[w]])]
    /\ hist' = Event(wfn[w], "pushsync", OnWorker)
    /\ wpc' = [wpc EXCEPT ![w] = "inc"]
    /\ WorkerUnchanged
    /\ UNCHANGED <<q_, num_free_threads, wfn, wprev, wambient, tasks, deqOrder, mutex_>>

\* ++num_free_threads, before the lock is taken again
WorkerInc(w) ==
    /\ wpc[w] = "inc"
    /\ num_free_threads' = Add32(num_free_threads, 1)
    /\ wfn' = [wfn EXCEPT ![w] = 0]
    /\ wpc' = [wpc EXCEPT ![w] = "relock"]
    /\ WorkerUnchanged
    /\ UNCHANGED <<q_, wprev, flags, wambient, tasks, hist, engine, deqOrder, mutex_>>

\* as WorkerRelock, with a second ++num_free_threads after the lock is taken
WorkerRelockAndInc(w) ==
    /\ wpc[w] = "relock"
    /\ mutex_ = NoThread
    /\ mutex_' = WorkerThread(w)
    /\ num_free_threads' = Add32(num_free_threads, 1)
    /\ wpc' = [wpc EXCEPT ![w] = InnerWhile]
    /\ WorkerUnchanged
    /\ UNCHANGED <<q_, wfn, wprev, flags, wambient, tasks, hist, engine, deqOrder>>

\* lock.lock(), and the inner while is evaluated again
WorkerRelock(w) ==
    /\ wpc[w] = "relock"
    /\ mutex_ = NoThread
    /\ mutex_' = WorkerThread(w)
    /\ wpc' = [wpc EXCEPT ![w] = InnerWhile]
    /\ WorkerUnchanged
    /\ UNCHANGED <<q_, num_free_threads, wfn, wprev, flags, wambient, tasks, hist, engine,
                   deqOrder>>

\* --------------------------------------------- the engine runs a closure
EngineUnchanged ==
    UNCHANGED <<naive_engine_, maxThreads, q_, workers_, num_free_threads,
                destructing_, wpc, wfn, wprev, flags, wambient, cpc, ctask, ctarget, dpc,
                joined, deqOrder, regVars, mutex_>>

\* as EngineRun, with async_on_complete called before the loop
EngineCompleteThenReconcile(t) ==
    /\ engine[t].st = "pending"
    /\ tasks' = [tasks EXCEPT ![t] = Reconcile(tasks[t])]
    /\ hist' = [hist EXCEPT ![t] = hist[t] \o << <<"complete", OnEngine>>,
                                                <<"reconcile", OnEngine>> >>]
    /\ engine' = [engine EXCEPT ![t].st = "done"]
    /\ EngineUnchanged

\* the engine runs the closure it was given: the loop over arrs that rebinds the
\* sparse outputs, then ctx.async_on_complete()
EngineRun(t) ==
    /\ engine[t].st = "pending"
    /\ tasks' = [tasks EXCEPT ![t] = Reconcile(tasks[t])]
    /\ hist' = [hist EXCEPT ![t] = hist[t] \o << <<"reconcile", OnEngine>>,
                                                <<"complete", OnEngine>> >>]
    /\ engine' = [engine EXCEPT ![t].st = "done"]
    /\ EngineUnchanged

\* ------------------------------------------------------- ~CustomOperator
NoCallInFlight == \A c \in Callers : cpc[c] = "idle" /\ rpc[c] = "idle"

DtorUnchanged ==
    UNCHANGED <<naive_engine_, maxThreads, q_, workers_, num_free_threads, wfn,
                wprev, flags, wambient, cpc, ctask, ctarget, tasks, hist, engine, deqOrder, regVars>>

\* as DtorNaive, without the early return: the destructor goes on to signal
DtorNaiveSignals ==
    /\ dpc = "alive"
    /\ NoCallInFlight
    /\ naive_engine_
    /\ mutex_ = NoThread
    /\ destructing_' = TRUE
    /\ wpc' = NotifyAll(wpc)
    /\ dpc' = "joining"
    /\ UNCHANGED <<joined, mutex_>>
    /\ DtorUnchanged

\* if (naive_engine_) return
DtorNaive ==
    /\ dpc = "alive"
    /\ NoCallInFlight
    /\ naive_engine_
    /\ dpc' = "done"
    /\ UNCHANGED <<destructing_, wpc, joined, mutex_>>
    /\ DtorUnchanged

\* as DtorSignal, without the cv_.notify_all()
DtorSignalNoWake ==
    /\ dpc = "alive"
    /\ NoCallInFlight
    /\ ~naive_engine_
    /\ mutex_ = NoThread
    /\ destructing_' = TRUE
    /\ dpc' = "joining"
    /\ UNCHANGED <<joined, mutex_, wpc>>
    /\ DtorUnchanged

\* { lock; destructing_ = true; cv_.notify_all(); }
DtorSignal ==
    /\ dpc = "alive"
    /\ NoCallInFlight
    /\ ~naive_engine_
    /\ mutex_ = NoThread
    /\ destructing_' = TRUE
    /\ wpc' = NotifyAll(wpc)
    /\ dpc' = "joining"
    /\ UNCHANGED <<joined, mutex_>>
    /\ DtorUnchanged

\* for (auto &worker : workers_) worker.join(): returns once that thread has ended
DtorJoin ==
    /\ dpc = "joining"
    /\ Len(joined) < Len(workers_)
    /\ wpc[Len(joined) + 1] = "exited"
    /\ joined' = Append(joined, workers_[Len(joined) + 1])
    /\ UNCHANGED <<destructing_, wpc, dpc, mutex_>>
    /\ DtorUnchanged

DtorReturn ==
    /\ dpc = "joining"
    /\ Len(joined) = Len(workers_)
    /\ dpc' = "done"
    /\ UNCHANGED <<destructing_, wpc, joined, mutex_>>
    /\ DtorUnchanged

\* ------------------------------------------------------ Register and Find
OpTypes == {"A", "B"}
Creators == {"c1", "c2"}
nullptr == "nullptr"

\* registry_.find(op_type) != registry_.end()
RegistryHas(reg, op_type) == op_type \in DOMAIN reg

\* as RegistryStore, keeping the entry a name already has (std::map::insert)
RegistryInsert(reg, op_type, creator) ==
    [n \in DOMAIN reg \cup {op_type} |-> IF n \in DOMAIN reg THEN reg[n] ELSE creator]

\* registry_[op_type] = creator
RegistryStore(reg, op_type, creator) ==
    [n \in DOMAIN reg \cup {op_type} |-> IF n = op_type THEN creator ELSE reg[n]]

\* it->second of the entry found, nullptr when there is none
RegistryFind(reg, op_type) == IF RegistryHas(reg, op_type) THEN reg[op_type] ELSE nullptr

\* Register: std::lock_guard lock(mutex_)
RegisterLock(c, op_type, creator) ==
    /\ CanCall(c)
    /\ mutex_ = NoThread
    /\ mutex_' = CallerThread(c)
    /\ rpc' = [rpc EXCEPT ![c] = "reg_find"]
    /\ rargs' = [rargs EXCEPT ![c] = <<op_type, creator>>]
    /\ UNCHANGED <<poolVars, registry_, regLog, warnings, findRes>>

\* if (registry_.find(op_type) != registry_.end()) LOG(WARNING) << ...
RegisterWarn(c) ==
    /\ rpc[c] = "reg_find"
    /\ warnings' = IF RegistryHas(registry_, rargs[c][1]) THEN warnings + 1 ELSE warnings
    /\ rpc' = [rpc EXCEPT ![c] = "reg_store"]
    /\ UNCHANGED <<poolVars, registry_, regLog, rargs, findRes, mutex_>>

\* registry_[op_type] = creator; return, which unlocks mutex_
RegisterStore(c) ==
    /\ rpc[c] = "reg_store"
    /\ registry_' = RegistryStore(registry_, rargs[c][1], rargs[c][2])
    /\ regLog' = Append(regLog, rargs[c])
    /\ mutex_' = NoThread
    /\ rpc' = [rpc EXCEPT ![c] = "idle"]
    /\ rargs' = [rargs EXCEPT ![c] = <<>>]
    /\ UNCHANGED <<poolVars, warnings, findRes>>

\* Find: std::lock_guard lock(mutex_)
FindLock(c, op_type) ==
    /\ CanCall(c)
    /\ mutex_ = NoThread
    /\ mutex_' = CallerThread(c)
    /\ rpc' = [rpc EXCEPT ![c] = "find"]
    /\ rargs' = [rargs EXCEPT ![c] = <<op_type>>]
    /\ UNCHANGED <<poolVars, registry_, regLog, warnings, findRes>>

\* auto it = registry_.find(op_type); return it->second or nullptr
FindReturn(c) ==
    /\ rpc[c] = "find"
    /\ findRes' = <<rargs[c][1], RegistryFind(registry_, rargs[c][1]), Len(regLog)>>
    /\ mutex_' = NoThread
    /\ rpc' = [rpc EXCEPT ![c] = "idle"]
    /\ rargs' = [rargs EXCEPT ![c] = <<>>]
    /\ UNCHANGED <<poolVars, registry_, regLog, warnings>>

RegistryStep(c) == RegisterWarn(c) \/ RegisterStore(c) \/ FindReturn(c)

\* the Register calls begun so far
RegistersBegun == Len(regLog) + Cardinality({c \in Callers : Len(rargs[c]) = 2})

RegistryNext ==
    \/ \E c \in Callers, n \in OpTypes, cr \in Creators :
          RegistersBegun < MaxRegs /\ RegisterLock(c, n, cr)
    \/ \E c \in Callers, n \in OpTypes : FindLock(c, n)
    \/ \E c \in Callers : RegistryStep(c)

SpecRegistry == Init /\ [][RegistryNext]_vars

\* ---------------------------------------------------------------- Next
\* the steps a worker takes when it is scheduled
WorkerRun(w) ==
    \/ WorkerStart(w) \/ WorkerOuter(w) \/ WorkerWoken(w)
    \/ WorkerDec(w) \/ WorkerPop(w) \/ WorkerUnlock(w)
    \/ ClosureFunc(w) \/ ClosureFinish(w) \/ WorkerInc(w) \/ WorkerRelock(w)

WorkerStep(w) == WorkerRun(w) \/ WorkerSpuriousWake(w)

PooledPushStep(c) ==
    PushCheck(c) \/ PushGrow(c) \/ PushSpawn(c) \/ PushSpawned(c) \/ PushNotify(c)

PushStep(c) ==
    \/ NaiveReconcile(c) \/ NaiveComplete(c) \/ NaiveReturn(c)
    \/ PooledPushStep(c)

PushBegin(c, in, fl) == NaiveFunc(c, in, fl) \/ PushEnqueue(c, in, fl)

Dtor == DtorNaive \/ DtorSignal \/ DtorJoin \/ DtorReturn

PoolNext ==
    \/ \E c \in Callers : PushStep(c)
    \/ \E w \in DOMAIN wpc : WorkerStep(w)
    \/ \E t \in DOMAIN tasks : EngineRun(t)

\* the calling threads are interchangeable: the idle one with the lowest number
\* makes the next call
FirstIdle(c) == \A d \in 1..(c - 1) : cpc[d] # "idle"

Next ==
    \/ /\ Len(tasks) < MaxTasks
       /\ \E c \in Callers, a \in ScenarioArgs : FirstIdle(c) /\ PushBegin(c, a[1], a[2])
    \/ PoolNext
    \/ Dtor

Spec == Init /\ [][Next]_vars

\* one Push, with every arrs / tags / output_tags up to MaxArrs entries
ReconNext ==
    \/ /\ tasks = <<>>
       /\ \E c \in Callers, in \in AllInputs : PushBegin(c, in, <<TRUE, FALSE>>)
    \/ PoolNext

SpecRecon == Init /\ [][ReconNext]_vars

\* pooled mode with a cap of at least one thread and no shutdown; a thread inside
\* Push runs on to its return, every worker is scheduled again and again, and
\* every func returns (ClosureFunc is a step of WorkerRun)
LiveInit == Init /\ ~naive_engine_ /\ maxThreads >= 1

\* every Push is made with the same arguments: which task runs, and when, does
\* not depend on them
LiveArgs == CHOOSE a \in ScenarioArgs : TRUE

LiveNext ==
    \/ /\ Len(tasks) < MaxTasks
       /\ \E c \in Callers : PushEnqueue(c, LiveArgs[1], LiveArgs[2])
    \/ \E c \in Callers : PooledPushStep(c)
    \/ \E w \in DOMAIN wpc : WorkerStep(w)
    \/ \E t \in DOMAIN tasks : EngineRun(t)

LiveFairness ==
    /\ \A c \in Callers : WF_vars(PooledPushStep(c))
    /\ \A w \in 1..MaxCap : WF_vars(w \in DOMAIN wpc /\ WorkerRun(w))

SpecLive == LiveInit /\ [][LiveNext]_vars /\ LiveFairness

\* pooled mode with the cap anywhere up to the number of tasks, so that it need
\* not bind
GrowInit == InitWithCap(0..MaxTasks) /\ ~naive_engine_

SpecGrow == GrowInit /\ [][LiveNext]_vars

\* pooled mode where a func may throw; no thread takes a step once the process
\* has been terminated
Terminated == \E w \in DOMAIN wpc : wpc[w] = "terminated"

RaiseNext ==
    /\ ~Terminated
    /\ \/ LiveNext
       \/ \E w \in DOMAIN wpc : ClosureFuncRaises(w)

RaiseFairness ==
    /\ \A c \in Callers : WF_vars(~Terminated /\ PooledPushStep(c))
    /\ \A w \in 1..MaxCap : WF_vars(~Terminated /\ w \in DOMAIN wpc /\ WorkerRun(w))

SpecRaise == LiveInit /\ [][RaiseNext]_vars /\ RaiseFairness

\* pooled mode with the destructor: as SpecLive with any cap, and the thread in
\* the destructor runs on to its return
DownInit == Init /\ ~naive_engine_

PooledDtor == DtorSignal \/ DtorJoin \/ DtorReturn

DownNext == LiveNext \/ PooledDtor

DownFairness == LiveFairness /\ WF_vars(DtorJoin \/ DtorReturn)

SpecDown == DownInit /\ [][DownNext]_vars /\ DownFairness

\* ================================================================ claims
EventAt(t, i) == hist[t][i][1]
Positions(t, ev) == {i \in 1..Len(hist[t]) : EventAt(t, i) = ev}
Happened(t, ev) == Positions(t, ev) # {}
PushReturned(t) == Happened(t, "return")

\* C1: the completion signal of a Push is invoked at most once, only after func
\* has returned and after the reconciliation loop of that Push; it has been invoked
\* exactly once when a naive Push has returned and when the engine has run the
\* closure of a pooled Push
C1_CompletionOnceAfterReconcile ==
    \A t \in DOMAIN hist :
        /\ Cardinality(Positions(t, "complete")) <= 1
        /\ \A i \in Positions(t, "complete") :
              \E j \in Positions(t, "func"), k \in Positions(t, "reconcile") :
                  j < k /\ k < i
        /\ naive_engine_ /\ PushReturned(t) => Cardinality(Positions(t, "complete")) = 1
        /\ engine[t].st = "done" => Cardinality(Positions(t, "complete")) = 1

\* the engine has run the closure of a pooled Push, which signalled completion
C1_Witness ==
    /\ ~naive_engine_
    /\ \E t \in DOMAIN hist : engine[t].st = "done" /\ Happened(t, "complete")

\* C2: a task leaves q_ at most once and its func runs at most once; a worker
\* holds mutex_ from its decrement of num_free_threads to its pop, and no step of
\* another thread changes q_ in between
C2_HeldAcrossDecAndPop ==
    \A w \in DOMAIN wpc : wpc[w] \in {"pop", "unlock"} => mutex_ = WorkerThread(w)

C2_DequeuedOnce ==
    /\ \A t \in DOMAIN hist :
          /\ Cardinality(Positions(t, "dequeue")) <= 1
          /\ Cardinality(Positions(t, "func")) <= 1
    /\ \A i, j \in DOMAIN deqOrder : deqOrder[i] = deqOrder[j] => i = j
    /\ \A v, w \in DOMAIN wfn : wfn[v] # 0 /\ wfn[v] = wfn[w] => v = w

C2_PopStep(w) ==
    /\ wpc'[w] = "unlock"
    /\ q_ # <<>>
    /\ q_' = Tail(q_)
    /\ wfn'[w] = Head(q_)

C2_AtMostOnceAtomicPop ==
    /\ [](C2_HeldAcrossDecAndPop /\ C2_DequeuedOnce)
    /\ [][\A w \in DOMAIN wpc : wpc[w] = "pop" => (q_' = q_ \/ C2_PopStep(w))]_vars

\* two workers each hold a task they dequeued
C2_Witness ==
    \E v, w \in DOMAIN wfn : v # w /\ wfn[v] # 0 /\ wfn[w] # 0

\* C3: in pooled mode with a cap of at least one thread and no shutdown, every
\* task that Push has put in q_ is eventually dequeued and its func is eventually run
C3_EnqueuedEventuallyRuns ==
    \A t \in 1..MaxTasks :
        (t \in DOMAIN hist /\ Happened(t, "enqueue"))
            ~> (t \in DOMAIN hist /\ Happened(t, "dequeue") /\ Happened(t, "func"))

\* the only worker of a pool capped at one thread has run every task pushed so
\* far, two or more, and waits in cv_.wait again
C3_Witness ==
    /\ maxThreads = 1
    /\ Len(tasks) >= 2
    /\ q_ = <<>>
    /\ \A t \in DOMAIN hist : Happened(t, "dequeue") /\ Happened(t, "func")
    /\ \E w \in DOMAIN wpc : wpc[w] = "sleeping"

\* C4: when a naive Push has returned, func, the reconciliation loop and the
\* completion signal have run once each, in that order, on the calling thread
C4_NaivePushSynchronous ==
    \A t \in DOMAIN hist :
        naive_engine_ /\ PushReturned(t) =>
            hist[t] = << <<"func", OnCaller>>, <<"reconcile", OnCaller>>,
                         <<"complete", OnCaller>>, <<"return", OnCaller>> >>

C4_Witness ==
    naive_engine_ /\ \E t \in DOMAIN hist : PushReturned(t)

\* the entries of arrs that are sparse and tagged as outputs, and the k-th of them
\* in arrs order
Qualifying(t) ==
    {i \in 1..Len(t.stypes) :
        t.stypes[i] \notin {kDefaultStorage, kUndefinedStorage}
        /\ t.tags[i] \in t.output_tags}
KthQualifying(t, k) ==
    CHOOSE i \in Qualifying(t) : Cardinality({j \in Qualifying(t) : j <= i}) = k

\* C5: after the reconciliation loop of a Push whose outputs has one handle per
\* sparse output-tagged entry of arrs, outputs[k] shares the chunk that the k-th
\* such entry has after func, no index of outputs was out of range, and the
\* handles in arrs are on the chunks func left them on
C5_SparseReconciliation ==
    \A t \in DOMAIN tasks :
        Happened(t, "reconcile") =>
            /\ ~tasks[t].oob
            /\ Len(tasks[t].outChunk) = Cardinality(Qualifying(tasks[t]))
            /\ \A k \in 1..Len(tasks[t].outChunk) :
                  /\ tasks[t].outChunk[k] = tasks[t].arrChunk[KthQualifying(tasks[t], k)]
                  /\ tasks[t].outChunk[k] = NewChunk(KthQualifying(tasks[t], k))
            /\ \A i \in 1..Len(tasks[t].stypes) :
                  tasks[t].arrChunk[i] =
                      IF IsSparse(tasks[t].stypes[i])
                      THEN NewChunk(i) ELSE ArrChunk(i)

\* the engine has reconciled a pooled Push with two outputs whose first sparse
\* output is not the first entry of arrs
C5_Witness ==
    /\ ~naive_engine_
    /\ \E t \in DOMAIN tasks :
          /\ Happened(t, "reconcile")
          /\ Len(tasks[t].outChunk) = 2
          /\ KthQualifying(tasks[t], 1) = 2

\* C6: while func of a task runs on a worker, that thread's flags are the task's
\* (recording, training); once the restore has run they are the values the thread
\* had before the task, which are the values it had before any task
InitialFlags == <<FALSE, FALSE>>

C7_FifoDequeue ==
    /\ \A i \in DOMAIN deqOrder : deqOrder[i] = i
    /\ \A i \in DOMAIN q_ : q_[i] = Len(deqOrder) + i
    /\ ~naive_engine_ /\ (\A c \in Callers : cpc[c] = "idle")
          => Len(deqOrder) + Len(q_) = Len(tasks)
    /\ maxThreads = 1 =>
          /\ Cardinality({w \in DOMAIN wpc : wfn[w] # 0}) <= 1
          /\ \A t \in DOMAIN hist :
                Happened(t, "func") => \A u \in 1..t : Happened(u, "func")

\* with a cap of one thread, the single worker has run three tasks
C7_Witness ==
    /\ maxThreads = 1
    /\ Len(tasks) >= 3
    /\ Len(workers_) = 1
    /\ \A t \in DOMAIN hist : Happened(t, "func")

\* C8: while no func has returned, the pool holds min(N, cap) workers whenever N
\* pooled Push calls have been made and none is in progress; the pool never shrinks
C8_GrownToMin ==
    (/\ ~naive_engine_
     /\ \A t \in DOMAIN hist : ~Happened(t, "func")
     /\ \A c \in Callers : cpc[c] = "idle")
        => Len(workers_) = Min(Len(tasks), maxThreads)

C8_PoolGrowth ==
    /\ []C8_GrownToMin
    /\ [][Len(workers_') >= Len(workers_)]_vars

\* three Push calls have returned under a cap of two while every func blocks
C8_Witness ==
    /\ ~naive_engine_
    /\ maxThreads = 2
    /\ Len(tasks) = 3
    /\ \A t \in DOMAIN hist : ~Happened(t, "func")
    /\ \A c \in Callers : cpc[c] = "idle"
    /\ \E w \in DOMAIN wpc : wpc[w] = "func"

\* C9: 0 <= num_free_threads <= workers_.size() in every state (a uint32_t that
\* had wrapped below zero reads as a negative number here)
C9_IdleCountInRange ==
    /\ 0 <= num_free_threads
    /\ num_free_threads <= Len(workers_)

\* a Push is between its two reads of num_free_threads while one worker has
\* incremented it without the lock and another still runs its task
C9_Witness ==
    /\ \E c \in Callers : cpc[c] = "grow"
    /\ \E v, w \in DOMAIN wpc : wpc[v] = "relock" /\ wpc[w] = "func"

\* the creator of the last Register made for op_type in log, nullptr if none
LastRegistered(log, op_type) ==
    LET made == {i \in 1..Len(log) : log[i][1] = op_type} IN
    IF made = {} THEN nullptr
    ELSE log[CHOOSE i \in made : \A j \in made : j <= i][2]

C10_FindIsLastRegistered ==
    /\ findRes # <<>> =>
          findRes[2] = LastRegistered(SubSeq(regLog, 1, findRes[3]), findRes[1])
    /\ \A n \in OpTypes : RegistryFind(registry_, n) = LastRegistered(regLog, n)

\* C10: Find returns the creator of the last Register made for that name before
\* it, nullptr when there was none; registry_ holds for every name the creator of
\* the last Register made for it; no step of Find changes registry_
C10_LastWriterWins ==
    /\ []C10_FindIsLastRegistered
    /\ [][(\E c \in Callers : rpc[c] = "find" \/ rpc'[c] = "find")
             => registry_' = registry_]_vars

\* "A" was registered with c1 and then with c2, and Find("A") returned c2
C10_Witness ==
    /\ regLog = << <<"A", "c1">>, <<"A", "c2">> >>
    /\ findRes = <<"A", "c2", 2>>

\* the destructor has returned with every worker out of its loop and joined once
C11_AllExitedAndJoined ==
    (dpc = "done" /\ ~naive_engine_) =>
        /\ joined = workers_
        /\ \A w \in DOMAIN wpc : wpc[w] = "exited"
        /\ \A i, j \in DOMAIN joined : joined[i] = joined[j] => i = j

\* C11: the pooled destructor sets destructing_ and wakes every waiting worker in
\* one critical section of mutex_; it returns only when every worker has left its
\* loop and has been joined once; once it has signalled, it does return
C11_Shutdown ==
    /\ []C11_AllExitedAndJoined
    /\ [][destructing_' # destructing_ =>
             /\ mutex_ = NoThread /\ mutex_' = NoThread
             /\ destructing_'
             /\ \A w \in DOMAIN wpc : wpc'[w] # "sleeping"]_vars
    /\ (dpc = "joining") ~> (dpc = "done")

\* the destructor has returned after joining two workers that ran tasks
C11_Witness ==
    /\ dpc = "done"
    /\ Len(joined) >= 2
    /\ Len(deqOrder) >= 2

\* C12: workers_ never holds more threads than the configured maximum, and no
\* step removes a thread from it
C12_PoolBoundedMonotone ==
    /\ [](Len(workers_) <= maxThreads)
    /\ [][/\ Len(workers_') >= Len(workers_)
          /\ SubSeq(workers_', 1, Len(workers_)) = workers_]_vars

\* the pool is at its cap of two while a third task waits in q_
C12_Witness ==
    /\ maxThreads = 2
    /\ Len(workers_) = 2
    /\ Len(tasks) = 3
    /\ Len(q_) >= 1
    /\ \A c \in Callers : cpc[c] = "idle"

\* C13: in naive mode no Push and no destructor step changes q_, workers_,
\* num_free_threads or destructing_, takes mutex_ or joins a thread: they stay as
\* the constructor left them
C13_NaiveNoPoolState ==
    /\ [](naive_engine_ =>
             /\ q_ = <<>> /\ workers_ = <<>> /\ wpc = <<>>
             /\ num_free_threads = 0
             /\ ~destructing_
             /\ joined = <<>>
             /\ mutex_ = NoThread)
    /\ [][naive_engine_ =>
             UNCHANGED <<q_, workers_, num_free_threads, destructing_, joined, mutex_>>]_vars

\* the naive destructor has returned after two naive Push calls completed
C13_Witness ==
    /\ naive_engine_
    /\ dpc = "done"
    /\ Len(tasks) >= 2
    /\ \A t \in DOMAIN hist : Happened(t, "complete") /\ PushReturned(t)

\* the workers that have decremented num_free_threads for a task and are still on it
ExecutingWorkers == {w \in DOMAIN wpc : wpc[w] \in {"pop", "unlock", "func", "restore", "inc"}}

Raised == \E t \in DOMAIN hist : Happened(t, "raise")

\* C14: after the func of a task has raised on a worker, num_free_threads still
\* equals the number of workers that are not executing a task (whenever no Push is
\* in progress), and every task in q_ is still dequeued and run
C14_WorkerIsolation ==
    /\ []((Raised /\ \A c \in Callers : cpc[c] = "idle") =>
             num_free_threads = Len(workers_) - Cardinality(ExecutingWorkers))
    /\ \A t \in 1..MaxTasks :
          (Raised /\ t \in DOMAIN hist /\ Happened(t, "enqueue"))
              ~> (t \in DOMAIN hist /\ (Happened(t, "func") \/ Happened(t, "raise")))

\* thread T takes the step and holds mutex_ before it or after it
CallerStepsLocked(c) ==
    /\ cpc'[c] # cpc[c]
    /\ mutex_ = CallerThread(c) \/ mutex_' = CallerThread(c)

WorkerStepsLocked(w) ==
    /\ wpc'[w] # wpc[w]
    /\ mutex_ = WorkerThread(w) \/ mutex_' = WorkerThread(w)

\* C15: every step that changes q_, num_free_threads or workers_ is taken by a
\* thread that holds mutex_, and while a thread in Push holds mutex_ no other
\* thread changes num_free_threads
C15_ModifiedUnderMutex ==
    /\ [][(q_' # q_ \/ num_free_threads' # num_free_threads \/ workers_' # workers_) =>
             \/ \E c \in Callers : CallerStepsLocked(c)
             \/ \E w \in DOMAIN wpc : WorkerStepsLocked(w)]_vars
    /\ [][\A c \in Callers :
             (mutex_ = CallerThread(c) /\ num_free_threads' # num_free_threads)
                 => cpc'[c] # cpc[c]]_vars

\* the pool size SetNumThreads leaves for a target, and the size that growing by
\* deficit d under the cap leaves
SizeAfterTarget(target) == IF target > Len(workers_) THEN target ELSE Len(workers_)
SizeGrownBy(d) ==
    IF d <= 0 THEN Len(workers_)
    ELSE SizeAfterTarget(IF Len(workers_) + d < maxThreads THEN Len(workers_) + d
                         ELSE maxThreads)

\* the growth decision of Push leaves the pool at the size that growing by the
\* deficit pending(q_, run) - num_free_threads leaves, where run is the number of
\* tasks counted as running
GrowthFollows(run) ==
    \A c \in Callers :
        /\ (cpc[c] = "check" /\ cpc'[c] = "notify") =>
              SizeGrownBy((Len(q_) + run) - num_free_threads) = Len(workers_)
        /\ (cpc[c] = "grow" /\ cpc'[c] = "spawn") =>
              SizeAfterTarget(ctarget'[c]) =
                  SizeGrownBy((Len(q_) + run) - num_free_threads)
        /\ (cpc[c] = "spawn" /\ cpc'[c] = "spawned") =>
              Len(workers_) < ctarget[c] /\ Len(workers_') = Len(workers_) + 1
        /\ (cpc[c] = "spawn" /\ cpc'[c] = "notify") => Len(workers_) >= ctarget[c]

\* C16 as stated: the deficit counts the pending and the running tasks
C16_GrowthByPendingPlusRunning ==
    [][GrowthFollows(Cardinality(ExecutingWorkers))]_vars

\* C16: after the task is enqueued, if the number of pending tasks (q_.size(),
\* running tasks not counted) exceeds num_free_threads, the pool grows by the
\* deficit q_.size() - num_free_threads as read when CreateThreads is called,
\* limited by the cap; otherwise the pool size is left unchanged; workers_ changes
\* in no other step
C16_GrowthByPending ==
    /\ [][GrowthFollows(0)]_vars
    /\ [][workers_' # workers_ => \E c \in Callers : cpc[c] = "spawn"]_vars

\* a Push grows the pool by one for its own task while an earlier task runs
C16_Witness ==
    /\ ExecutingWorkers # {}
    /\ maxThreads > Len(workers_) + 1
    /\ \E c \in Callers :
          /\ cpc[c] = "spawn"
          /\ ctarget[c] = Len(workers_) + 1
          /\ Len(q_) = 1

\* C17: the pool never holds more workers than tasks have been submitted; it is
\* empty until the first pooled Push, and a naive Push creates none
C17_WorkersOnDemand ==
    /\ Len(workers_) <= Len(tasks)
    /\ (tasks = <<>> \/ naive_engine_) => workers_ = <<>>

\* a Push creates a worker for its task while the only other worker has finished
\* its task and has not yet counted itself idle
C17_Witness ==
    /\ \E c \in Callers : cpc[c] = "spawned"
    /\ Len(workers_) = 2
    /\ wpc[1] = "inc"
    /\ Len(tasks) = 2

\* C18: a worker leaves its loop only when destructing_ is set and q_ is empty;
\* when the pooled destructor has returned from a pool of at least one worker, q_
\* is empty and every task that was enqueued has been dequeued and its func run
C18_ShutdownDrains ==
    /\ [][\A w \in DOMAIN wpc :
             (wpc[w] # "exited" /\ wpc'[w] = "exited") => (destructing_ /\ q_ = <<>>)]_vars
    /\ []((dpc = "done" /\ ~naive_engine_ /\ Len(workers_) >= 1) =>
             /\ q_ = <<>>
             /\ \A t \in DOMAIN hist :
                   Happened(t, "enqueue") =>
                       Happened(t, "dequeue") /\ Happened(t, "func"))

\* the destructor has returned from a pool of one worker that had two or more
\* tasks to run
C18_Witness ==
    /\ dpc = "done"
    /\ Len(workers_) = 1
    /\ Len(tasks) >= 2
    /\ Len(deqOrder) = Len(tasks)

\* C19: the closure handed to PushSync declares in vars the variable of every
\* entry of arrs, and in vars2 exactly the variables of the entries that are
\* sparse and tagged as outputs, which are the entries the closure rebinds
C19_VarsMatchReconciliation ==
    \A t \in DOMAIN engine :
        engine[t].st # "none" =>
            /\ engine[t].vars = [i \in 1..Len(tasks[t].stypes) |-> i]
            /\ {engine[t].vars2[k] : k \in DOMAIN engine[t].vars2} = Qualifying(tasks[t])
            /\ Len(engine[t].vars2) = Cardinality(Qualifying(tasks[t]))

\* the threads in SetNumThreads that have emplaced a worker and not yet counted it
UncountedSpawns == {c \in Callers : cpc[c] = "spawned"}

\* C20 as stated: in every state num_free_threads is the pool size minus the
\* workers that have decremented it for a task and not yet incremented it back
C20_IdleConservation ==
    /\ num_free_threads = Len(workers_) - Cardinality(ExecutingWorkers)
    /\ ExecutingWorkers = {} => num_free_threads = Len(workers_)

C20_CountedConservation ==
    /\ num_free_threads =
          (Len(workers_) - Cardinality(ExecutingWorkers)) - Cardinality(UncountedSpawns)
    /\ Cardinality(UncountedSpawns) <= 1
    /\ (ExecutingWorkers = {} /\ UncountedSpawns = {}) => num_free_threads = Len(workers_)

\* C20: in every state num_free_threads is the pool size minus the workers that
\* have decremented it for a task and not yet incremented it back, minus the one
\* worker, if any, that SetNumThreads has emplaced and not yet counted; at most one
\* worker is in that position, and every step adds at most one worker
C20_IdleConservationCounted ==
    /\ []C20_CountedConservation
    /\ [][Len(workers_') # Len(workers_) =>
             /\ Len(workers_') = Len(workers_) + 1
             /\ UncountedSpawns = {}
             /\ Cardinality(UncountedSpawns') = 1]_vars

\* SetNumThreads has emplaced a second worker and not yet counted it, while the
\* first worker executes a task
C20_Witness ==
    /\ UncountedSpawns # {}
    /\ Len(workers_) = 2
    /\ ExecutingWorkers # {}
    /\ num_free_threads = 0

====
